---- MODULE Spec2Model ----
(***************************************************************************)
(* SessionSettingsBar (launchpad/SessionSettingsBar.tsx): a styled div     *)
(* whose style is a tagged template literal with two interpolations,       *)
(* Colors.Gray200 and Colors.White, read from the palette module when the  *)
(* module is evaluated.                                                    *)
(*                                                                         *)
(* CSS text is modelled as a sequence of tokens (whitespace dropped):      *)
(* property names, ":", value components and ";".                          *)
(***************************************************************************)
EXTENDS Integers, Sequences, FiniteSets, TLC

VARIABLES
    Colors,              \* the palette object imported from ui-components
    loaded,              \* has SessionSettingsBar.tsx been evaluated
    resolved,            \* the palette as it was when the module was evaluated
    SessionSettingsBar,  \* the style text fixed by the tagged template
    changed,             \* palette written since the previous render
    renders              \* the last two render outputs, oldest first

vars == <<Colors, loaded, resolved, SessionSettingsBar, changed, renders>>

\* ---- bounds ----
MaxChildren == 2

\* Values a palette token can take: two hex colours and a CSS keyword.
TokenValues == {"#B8C1CC", "#FFFFFF", "white"}
TokenNames == {"Gray200", "White"}
Viewports == {"narrow", "wide"}

Palettes == [Gray200 : TokenValues, White : TokenValues]

\* ---- the template literal ----

\* mutants of the literal chunks
stringsAutoHeight ==
    << <<"color", ":", "white", ";", "display", ":", "flex", ";",
         "position", ":", "relative", ";",
         "border-bottom", ":", "1px", "solid">>,
       <<";", "background", ":">>,
       <<";", "align-items", ":", "center", ";",
         "height", ":", "auto", ";", "padding", ":", "8px", "10px", ";">> >>

stringsColumn ==
    << <<"color", ":", "white", ";", "display", ":", "flex", ";",
         "flex-direction", ":", "column", ";",
         "position", ":", "relative", ";",
         "border-bottom", ":", "1px", "solid">>,
       <<";", "background", ":">>,
       <<";", "align-items", ":", "center", ";",
         "height", ":", "47px", ";", "padding", ":", "8px", "10px", ";">> >>

stringsPaddingSwapped ==
    << <<"color", ":", "white", ";", "display", ":", "flex", ";",
         "position", ":", "relative", ";",
         "border-bottom", ":", "1px", "solid">>,
       <<";", "background", ":">>,
       <<";", "align-items", ":", "center", ";",
         "height", ":", "47px", ";", "padding", ":", "10px", "8px", ";">> >>

stringsNoPosition ==
    << <<"color", ":", "white", ";", "display", ":", "flex", ";",
         "border-bottom", ":", "1px", "solid">>,
       <<";", "background", ":">>,
       <<";", "align-items", ":", "center", ";",
         "height", ":", "47px", ";", "padding", ":", "8px", "10px", ";">> >>

\* The three literal chunks of the template, split at the interpolations.
strings ==
    << <<"color", ":", "white", ";", "display", ":", "flex", ";",
         "position", ":", "relative", ";",
         "border-bottom", ":", "1px", "solid">>,
       <<";", "background", ":">>,
       <<";", "align-items", ":", "center", ";",
         "height", ":", "47px", ";", "padding", ":", "8px", "10px", ";">> >>

\* mutants of the interpolation list
InterpolationsBorderWhite(c) == <<c.White, c.White>>
InterpolationsBackgroundGray(c) == <<c.Gray200, c.Gray200>>

\* The interpolated expressions, in order: ${Colors.Gray200}, ${Colors.White}.
Interpolations(c) == <<c.Gray200, c.White>>

\* Template evaluation: chunk, value, chunk, value, ..., chunk.
RECURSIVE Interleave(_, _)
Interleave(strs, vals) ==
    IF vals = <<>> THEN Head(strs)
    ELSE Head(strs) \o <<Head(vals)>> \o Interleave(Tail(strs), Tail(vals))

\* mutant: the text colour is bound to the White token as well
CssColorBound(c) ==
    <<"color", ":", c.White, ";">> \o
    SubSeq(Interleave(strings, Interpolations(c)), 5,
           Len(Interleave(strings, Interpolations(c))))

\* The style text the tagged template yields for palette c.
Css(c) == Interleave(strings, Interpolations(c))


\* ---- reading a style text ----

\* The token runs between ";" separators, empty runs dropped.
RECURSIVE SplitDeclarations(_, _, _)
SplitDeclarations(toks, run, acc) ==
    IF toks = <<>> THEN (IF run = <<>> THEN acc ELSE Append(acc, run))
    ELSE IF Head(toks) = ";"
         THEN SplitDeclarations(Tail(toks), <<>>,
                                IF run = <<>> THEN acc ELSE Append(acc, run))
         ELSE SplitDeclarations(Tail(toks), Append(run, Head(toks)), acc)

\* A run "prop : v1 v2 ..." is a declaration; anything else is dropped.
WellFormed(run) == Len(run) >= 3 /\ run[2] = ":"

Declarations(css) ==
    LET runs == SplitDeclarations(css, <<>>, <<>>)
    IN  SelectSeq(runs, WellFormed)

PropertiesOf(css) ==
    {Declarations(css)[i][1] : i \in 1..Len(Declarations(css))}

\* The value a style text gives a property: the last declaration of it wins;
\* <<>> when the text does not declare it.
Declared(css, prop) ==
    LET ds == Declarations(css)
        at == {i \in 1..Len(ds) : ds[i][1] = prop}
    IN  IF at = {} THEN <<>>
        ELSE LET last == CHOOSE i \in at : \A j \in at : j <= i
             IN  SubSeq(ds[last], 3, Len(ds[last]))

\* The padding shorthand expanded to its four sides.
PaddingSides(v) ==
    IF Len(v) = 1 THEN [top |-> v[1], right |-> v[1], bottom |-> v[1], left |-> v[1]]
    ELSE IF Len(v) = 2 THEN [top |-> v[1], right |-> v[2], bottom |-> v[1], left |-> v[2]]
    ELSE IF Len(v) = 3 THEN [top |-> v[1], right |-> v[2], bottom |-> v[3], left |-> v[2]]
    ELSE IF Len(v) = 4 THEN [top |-> v[1], right |-> v[2], bottom |-> v[3], left |-> v[4]]
    ELSE [top |-> "0", right |-> "0", bottom |-> "0", left |-> "0"]

\* The main axis of a flex container: row unless the text declares otherwise.
FlexDirection(css) ==
    IF Declared(css, "flex-direction") = <<>> THEN <<"row">>
    ELSE Declared(css, "flex-direction")

\* The colour a colour value denotes, as red, green, blue.
Rgb(v) ==
    IF v = "white" THEN <<255, 255, 255>>
    ELSE IF v = "#FFFFFF" THEN <<255, 255, 255>>
    ELSE IF v = "#B8C1CC" THEN <<184, 193, 204>>
    ELSE <<0, 0, 0>>

\* ---- the state machine ----

Init ==
    /\ Colors \in Palettes
    /\ loaded = FALSE
    /\ resolved = <<>>
    /\ SessionSettingsBar = <<>>
    /\ changed = FALSE
    /\ renders = <<>>

\* Evaluation of SessionSettingsBar.tsx: the interpolations read the palette
\* and the tagged template fixes the style text. A module is evaluated once.
Load ==
    /\ ~loaded
    /\ loaded' = TRUE
    /\ resolved' = Colors
    /\ SessionSettingsBar' = Css(Colors)
    /\ UNCHANGED <<Colors, changed, renders>>

\* mutant: the style follows the palette after the module was evaluated
SetTokenLive(name, v) ==
    /\ v # Colors[name]
    /\ Colors' = [Colors EXCEPT ![name] = v]
    /\ changed' = TRUE
    /\ SessionSettingsBar' = IF loaded THEN Css(Colors') ELSE SessionSettingsBar
    /\ UNCHANGED <<loaded, resolved, renders>>

\* The palette module's object is given another value for one token.
\* SessionSettingsBar.tsx holds no reference to it past its evaluation.
SetToken(name, v) ==
    /\ v # Colors[name]
    /\ Colors' = [Colors EXCEPT ![name] = v]
    /\ changed' = TRUE
    /\ UNCHANGED <<loaded, resolved, SessionSettingsBar, renders>>

\* mutant: the height gives way when the bar holds more than one child
StyleAppliedByContent(style, children, viewport) ==
    IF children > 1
    THEN style \o <<"height", ":", "auto", ";">>
    ELSE style

\* The style text a render applies to the div: the template holds no
\* function of the props, so it is the text fixed at evaluation.
StyleApplied(style, children, viewport) == style

\* One render of <SessionSettingsBar> with some children in some viewport.
Render(children, viewport) ==
    /\ loaded
    /\ LET out == [children |-> children,
                   viewport |-> viewport,
                   sameTokens |-> ~changed,
                   css |-> StyleApplied(SessionSettingsBar, children,
                                        viewport)]
       IN  renders' = IF Len(renders) = 2
                      THEN <<renders[2], out>>
                      ELSE Append(renders, out)
    /\ changed' = FALSE
    /\ UNCHANGED <<Colors, loaded, resolved, SessionSettingsBar>>

Next ==
    \/ Load
    \/ \E name \in TokenNames, v \in TokenValues : SetToken(name, v)
    \/ \E children \in 0..MaxChildren, viewport \in Viewports :
           Render(children, viewport)

Spec == Init /\ [][Next]_vars

\* ---- properties ----

\* Every style text in sight: the component's own, once the module is
\* evaluated, and the one carried by each recorded render.
StylesInSight ==
    (IF loaded THEN {SessionSettingsBar} ELSE {}) \cup
    {renders[i].css : i \in 1..Len(renders)}

RenderedTwice == Len(renders) = 2

SameInputs ==
    /\ renders[1].children = renders[2].children
    /\ renders[1].viewport = renders[2].viewport

\* C1: every render, whatever the number of children, applies a style whose
\* height is exactly 47px; no other height value is ever produced.
C1_HeightFixed ==
    \A css \in StylesInSight : Declared(css, "height") = <<"47px">>

C1_Witness ==
    /\ RenderedTwice
    /\ renders[1].children = 0
    /\ renders[2].children > 1
    /\ Declared(renders[2].css, "height") = <<"47px">>

\* C2: the border-bottom of the style is exactly 1px solid followed by the
\* value Gray200 had when the module was evaluated.
C2_BorderBottom ==
    \A css \in StylesInSight :
        Declared(css, "border-bottom") = <<"1px", "solid", resolved.Gray200>>

C2_Witness ==
    /\ Len(renders) > 0
    /\ resolved = [Gray200 |-> "#B8C1CC", White |-> "#FFFFFF"]
    /\ Declared(renders[1].css, "border-bottom") = <<"1px", "solid", "#B8C1CC">>

\* C3: the background of the style is the value White had when the module
\* was evaluated and nothing else, whatever Gray200 is.
C3_Background ==
    \A css \in StylesInSight :
        Declared(css, "background") = <<resolved.White>>

C3_Witness ==
    /\ Len(renders) > 0
    /\ resolved.White = "#FFFFFF"
    /\ resolved.Gray200 # resolved.White
    /\ Declared(renders[1].css, "background") = <<"#FFFFFF">>

\* C4: in every render the bar is a flex container whose main axis is the
\* row and whose cross-axis alignment is center.
C4_FlexRowCentered ==
    \A css \in StylesInSight :
        /\ Declared(css, "display") = <<"flex">>
        /\ FlexDirection(css) = <<"row">>
        /\ Declared(css, "align-items") = <<"center">>

C4_Witness ==
    /\ RenderedTwice
    /\ renders[1].children # renders[2].children
    /\ Declared(renders[2].css, "display") = <<"flex">>
    /\ Declared(renders[2].css, "align-items") = <<"center">>

\* C5: in every render, for any content and viewport, the padding is 8px at
\* the top and bottom and 10px at the left and right.
C5_Padding ==
    \A css \in StylesInSight :
        PaddingSides(Declared(css, "padding")) =
            [top |-> "8px", right |-> "10px", bottom |-> "8px", left |-> "10px"]

C5_Witness ==
    /\ RenderedTwice
    /\ renders[1].viewport # renders[2].viewport
    /\ renders[1].children # renders[2].children
    /\ Declared(renders[2].css, "padding") = <<"8px", "10px">>

\* C7: two renders with the palette tokens as they were, that differ in
\* children or viewport, carry the same style text.
C7_OnlyTokens ==
    (RenderedTwice /\ renders[2].sameTokens /\ ~SameInputs)
        => renders[2].css = renders[1].css

C7_Witness ==
    /\ RenderedTwice
    /\ renders[2].sameTokens
    /\ renders[1].children # renders[2].children
    /\ renders[1].viewport # renders[2].viewport
    /\ renders[2].css = renders[1].css

\* C8: the tokens are read once, when the module is evaluated; after that no
\* step, a render or a write to the palette, alters the style's border
\* colour or background, and the module is not evaluated again.
C8_ResolvedOnce ==
    [][loaded =>
          /\ loaded'
          /\ resolved' = resolved
          /\ Declared(SessionSettingsBar', "border-bottom")
                 = Declared(SessionSettingsBar, "border-bottom")
          /\ Declared(SessionSettingsBar', "background")
                 = Declared(SessionSettingsBar, "background")]_vars

C8_Witness ==
    /\ loaded
    /\ Len(renders) > 0
    /\ Colors.Gray200 # resolved.Gray200
    /\ Colors.White # resolved.White
    /\ Declared(SessionSettingsBar, "border-bottom")
           = <<"1px", "solid", resolved.Gray200>>
    /\ Declared(SessionSettingsBar, "background") = <<resolved.White>>

\* C9: in every render the position is relative and the text colour is
\* white, and the style carries exactly the eight listed properties, each
\* declared once.
C9_AllEight ==
    \A css \in StylesInSight :
        /\ Declared(css, "position") = <<"relative">>
        /\ Declared(css, "color") = <<"white">>
        /\ PropertiesOf(css) = {"color", "display", "position", "border-bottom",
                                "background", "align-items", "height", "padding"}
        /\ Len(Declarations(css)) = 8

C9_Witness ==
    /\ Len(renders) > 0
    /\ Declared(renders[1].css, "position") = <<"relative">>
    /\ Declared(renders[1].css, "color") = <<"white">>
    /\ Len(Declarations(renders[1].css)) = 8

\* C10: the text colour is the keyword white whatever the White token is,
\* while the background follows the token; the two denote the same colour
\* exactly when the White token denotes white.
C10_ColorNotBound ==
    \A css \in StylesInSight :
        /\ Declared(css, "color") = <<"white">>
        /\ Declared(css, "background") = <<resolved.White>>
        /\ (Rgb(Declared(css, "color")[1]) = Rgb(Declared(css, "background")[1]))
               <=> (Rgb(resolved.White) = <<255, 255, 255>>)

C10_Witness ==
    /\ Len(renders) > 0
    /\ resolved.White = "#B8C1CC"
    /\ Declared(renders[1].css, "color") = <<"white">>
    /\ Declared(renders[1].css, "background") = <<"#B8C1CC">>

====
